---- MODULE Spec2Model ----
(***************************************************************************)
(* Model of the test-run reporting client (APIHelper) of the Puppeteer +   *)
(* Jest framework.  The source holds two variants of the helper; the       *)
(* variable variant says which one the process loaded (1: the first class  *)
(* of src/jest.config.js, 2: the second).                                  *)
(*                                                                         *)
(* One step of the model is one call of a reporter operation by the        *)
(* harness: beforeAllTests (start), markTestStart, afterEachTest           *)
(* (recordTest) or afterAllTests (finish).  The inputs of a call are its   *)
(* arguments, the outcome of the HTTP request                              *)
(* and the outcome of the file operation.  Time passes between calls       *)
(* (Tick).                                                                 *)
(***************************************************************************)
EXTENDS Integers, Sequences, FiniteSets, TLC

VARIABLES
    variant,        \* which APIHelper class is loaded (1 or 2)
    isJenkins,      \* this.isJenkins = config.api.enabled
    pipelineRunId,  \* this.pipelineRunId, the in-process cache
    envRunId,       \* process.env.PIPELINE_RUN_ID, the shared handle
    startTime,      \* this.startTime
    testStartTime,  \* this.testStartTime
    now,            \* the clock (new Date(), Date.now())
    file,           \* test-results/.test-cases.json
    lastOp,         \* the operation the harness called last
    ret,            \* what that call returned (or that it raised)
    lastReq,        \* the HTTP request that call issued, NoReq if none
    lastResp,       \* the outcome of that request
    logged,         \* the kinds of log lines that call wrote
    ioErr,          \* a file operation failed inside that call
    fileRead,       \* that call read the persisted sequence back
    calls,          \* history: afterEachTest calls since the last start
    ioFailed,       \* history: a file operation failed since the last start
    lastStartId,    \* history: what the most recent start obtained
    lastFinish,     \* history: run id and status of the last finish that
                    \* the remote service accepted
    ops,            \* history: number of reporter calls made so far
    requests,       \* the number of HTTP requests that call issued
    hpc,            \* harness: the hook of tests/login.test.js that runs
                    \* next, "off" when the calls come in any order
    inFlight,       \* harness: HTTP requests issued and not yet settled
    testsRun,       \* harness: tests whose afterEach hook has finished
    beforeAllFailed, \* harness: the beforeAll hook threw
    testStatus,     \* harness: testStatus of the running afterEach hook
    errorMessage,   \* harness: errorMessage of that hook, by length
    shot,           \* harness: the screenshot attempt of that hook
    pageOpen,       \* harness: the page of the current test is open
    ppc,            \* two processes: where each stands in afterEachTest
    prec,           \* two processes: the record each is saving
    pbuf,           \* two processes: the sequence each has read
    pret,           \* two processes: what the call of each returned
    pageUrl,        \* login page: what page.url() returns, in parts
    waitForSelector, \* login page: how the wait for each selector ends
    verifyRet       \* login page: what the last verification returned

\* the variables of the harness
hvars == <<hpc, inFlight, testsRun, beforeAllFailed, testStatus,
           errorMessage, shot, pageOpen>>

\* the variables of two processes that share the file
cvars == <<ppc, prec, pbuf, pret>>

\* the variables of the login page
lvars == <<pageUrl, waitForSelector, verifyRet>>

vars == <<variant, isJenkins, pipelineRunId, envRunId, startTime,
          testStartTime, now, file, lastOp, ret, lastReq, lastResp, logged,
          ioErr, fileRead, calls, ioFailed, lastStartId, lastFinish, ops,
          requests, hpc, inFlight, testsRun, beforeAllFailed, testStatus,
          errorMessage, shot, pageOpen, ppc, prec, pbuf, pret, pageUrl,
          waitForSelector, verifyRet>>

(***************************************************************************)
(* Bounds of the model.                                                    *)
(***************************************************************************)
MaxTime == 2
MaxOps == 4
MaxTests == 2       \* tests of the suite driven by the harness
MsPerTick == 1500   \* milliseconds in one unit of the clock

(***************************************************************************)
(* Values.                                                                 *)
(***************************************************************************)
Null == "null"                  \* JavaScript null
Undef == "undef"                \* JavaScript undefined
EnvAbsent == "absent"           \* the environment variable is not set
EnvUndef == "undefined"         \* the string "undefined"
Data == "data"                  \* a decoded response payload
Raise == "raise"                \* the call rejected / threw
NoTime == 0                     \* null start time

RunIds == {"run-1", "run-2"}
NoId == "noid"                  \* a 2xx response without a run identifier
RespIds == RunIds \cup {NoId}
Names == {"TC-1"}
Statuses == {"passed", "failed", "skipped"}
Failures == {"neterr", "timeout", "http"}
Outcomes == {"ok"} \cup Failures
IoOutcomes == {"ok", "fail"}

NoDuration == -1                \* the payload has no duration field
ErrLimit == 500                 \* longest error message sent
NoMsg == -1                     \* no error message (null / field absent)
\* error messages, by their length
Msgs == {NoMsg, 0, ErrLimit - 1, ErrLimit + 1}

NoReq == [kind |-> "none", run |-> Null, status |-> Null, name |-> Null,
          total |-> 0, passed |-> 0, failed |-> 0, aborted |-> 0,
          durationMs |-> 0, errLen |-> NoMsg, duration |-> NoDuration]

FileAbsent == [exists |-> FALSE, cases |-> <<>>]
StaleFile == [exists |-> TRUE,
              cases |-> <<[name |-> "old", status |-> "failed"]>>]

NoFinish == [run |-> Null, status |-> Null]

Falsy(v) == v \in {Null, Undef}

(***************************************************************************)
(* Helpers of the APIHelper class.                                         *)
(***************************************************************************)

\* the guard left out: the helper reports even on a local run
LocalRunNever == FALSE

\* if (!this.isJenkins) return null;
LocalRun == ~isJenkins

\* the handle is not published
ToEnvStringDropped(v) == EnvAbsent

\* process.env.X = v stores String(v): undefined becomes "undefined".
ToEnvString(v) == IF v = Undef THEN EnvUndef ELSE v

\* process.env.PIPELINE_RUN_ID || null
EnvOrNull(env) == IF env = EnvAbsent THEN Null ELSE env

\* getPipelineRunId: the value of this.pipelineRunId after the call, which
\* is also the value returned.
GetPipelineRunId(cache, env) == IF Falsy(cache) THEN EnvOrNull(env) ELSE cache

\* the check of the run id left out
NoRunIdNever(id) == FALSE

\* if (!pipelineRunId) ... return null;
NoRunId(id) == Falsy(id)

\* every answer taken for a success
RequestSucceededAlways(resp) == TRUE

\* the request of afterEachTest succeeded: axios resolved and
\* response.status >= 200 && response.status < 300
RequestSucceeded(resp) == resp = "ok"

\* a catch block that rethrows
CatchRethrow == Raise

\* what the catch block of an operation returns
CatchResult == Null

\* a clear that writes nothing
ClearTestCasesFileKept(f, io) == f

\* clearTestCasesFile: writeJsonSync(file, []); a failed write leaves the
\* file as it was.
ClearTestCasesFile(f, io) ==
    IF io = "ok" THEN [exists |-> TRUE, cases |-> <<>>] ELSE f

\* a save that writes the new record alone
SaveTestCaseToFileAlone(f, rec, io) ==
    IF io = "ok" THEN [exists |-> TRUE, cases |-> <<rec>>] ELSE f

\* saveTestCaseToFile: read the whole file (an absent file reads as []),
\* push, write the whole file.
SaveTestCaseToFile(f, rec, io) ==
    IF io = "ok"
    THEN [exists |-> TRUE,
          cases |-> Append(IF f.exists THEN f.cases ELSE <<>>, rec)]
    ELSE f

\* a file that yields its records to the first read only
ReadTestCasesFromFileOnce(f) ==
    IF f.exists /\ ~fileRead THEN f.cases ELSE <<>>

\* readTestCasesFromFile of a file that can be read.
ReadTestCasesFromFile(f) == IF f.exists THEN f.cases ELSE <<>>

\* testCases.filter(tc => tc.status === s).length
RECURSIVE CountStatus(_, _)
CountStatus(tests, s) ==
    IF tests = <<>> THEN 0
    ELSE (IF Head(tests).status = s THEN 1 ELSE 0) + CountStatus(Tail(tests), s)

\* a run without failures left in status running
FinalStatusRunning(failed) == IF failed = 0 THEN "running" ELSE "failed"

\* the two outcomes exchanged
FinalStatusInverted(failed) == IF failed = 0 THEN "failed" ELSE "passed"

\* finalFailed === 0 ? 'passed' : 'failed'  /  failed > 0 ? 'failed' : 'passed'
FinalStatus(failed) == IF failed = 0 THEN "passed" ELSE "failed"

\* status: 'running' in the payload of the create-run request
StartStatus == "running"

\* payload of POST /api/pipeline-runs/
CreateReq == [NoReq EXCEPT !.kind = "create", !.status = StartStatus]

\* the mark subtracted from the wrong side
DurationReversed(end, mark) == IF mark # NoTime THEN mark - end ELSE 0

\* this.testStartTime ? (endTime - this.testStartTime) : 0
Duration(end, mark) == IF mark # NoTime THEN end - mark ELSE 0

\* errorMessage.substring(0, 500), by length
Substring(len, limit) == IF len < limit THEN len ELSE limit

\* the error_message field of the payload, by length.  First variant:
\* if (errorMessage && testStatus === 'failed') payload.error_message = ...;
\* the second variant takes the third argument as the feature and sends no
\* error message.
ErrorMessage(status, msg) ==
    IF variant = 1 /\ msg # NoMsg /\ msg # 0 /\ status = "failed"
    THEN Substring(msg, ErrLimit) ELSE NoMsg

\* payload of POST /api/test-cases/
TestCaseReq(id, name, status, msg) ==
    [NoReq EXCEPT !.kind = "testcase", !.run = id, !.name = name,
                  !.status = status,
                  !.durationMs = Duration(now, testStartTime),
                  !.errLen = ErrorMessage(status, msg)]

\* Math.floor((endTime - this.startTime) / 1000) of two readings of the
\* clock, 0 when the start time is unset
ElapsedSeconds(end, start) ==
    IF start # NoTime THEN ((end - start) * MsPerTick) \div 1000 ELSE 0

\* the duration field of the finish payload: the first variant sends the
\* elapsed seconds, the payload of the second variant has no duration
FinishDuration ==
    IF variant = 1 THEN ElapsedSeconds(now, startTime) ELSE NoDuration

\* the aggregates taken from the calls made, not from what was read
UpdateReqFromCalls(id, tests) ==
    [NoReq EXCEPT !.kind = "update", !.run = id,
                  !.status = FinalStatus(CountStatus(calls, "failed")),
                  !.total = Len(calls),
                  !.passed = CountStatus(calls, "passed"),
                  !.failed = CountStatus(calls, "failed"),
                  !.aborted = CountStatus(calls, "skipped"),
                  !.duration = FinishDuration]

\* payload of PATCH /api/pipeline-runs/{id}/
UpdateReq(id, tests) ==
    [NoReq EXCEPT !.kind = "update", !.run = id,
                  !.status = FinalStatus(CountStatus(tests, "failed")),
                  !.total = Len(tests),
                  !.passed = CountStatus(tests, "passed"),
                  !.failed = CountStatus(tests, "failed"),
                  !.aborted = CountStatus(tests, "skipped"),
                  !.duration = FinishDuration]

(***************************************************************************)
(* Log lines, by kind.                                                     *)
(***************************************************************************)
\* logger.info('Local run - Skipping API calls'): first variant, start and
\* finish only.
LocalRunLog(op) == IF variant = 1 /\ op \in {"start", "finish"}
                   THEN {"local"} ELSE {}

\* logger.error('API-n Skipped: No Pipeline Run ID available'): the first
\* variant logs, the second returns silently.
SkipLog == IF variant = 1 THEN {"skip"} ELSE {}

\* logger.error of a failed file operation: only the first variant catches
\* and logs inside the file helpers.
IoLog(failed) == IF failed /\ variant = 1 THEN {"ioError"} ELSE {}

(***************************************************************************)
(* Initial state: the module has just been loaded (constructor).           *)
(***************************************************************************)
InitReporterWith(handles) ==
    /\ variant \in {1, 2}
    /\ isJenkins \in BOOLEAN
    /\ pipelineRunId = Null
    /\ envRunId \in handles
    /\ startTime = NoTime
    /\ testStartTime = NoTime
    /\ now = 1
    /\ file \in {FileAbsent, StaleFile}
    /\ lastOp = "none"
    /\ ret = Undef
    /\ lastReq = NoReq
    /\ lastResp = "none"
    /\ logged = {}
    /\ ioErr = FALSE
    /\ fileRead = FALSE
    /\ calls = <<>>
    /\ ioFailed = FALSE
    /\ lastStartId = "never"
    /\ lastFinish = NoFinish
    /\ ops = 0
    /\ requests = 0

\* the process that starts the run: the handle is not set yet
InitReporter == InitReporterWith({EnvAbsent})

\* no hook has run yet
InitHooks ==
    /\ inFlight = 0
    /\ testsRun = 0
    /\ beforeAllFailed = FALSE
    /\ testStatus = "none"
    /\ errorMessage = NoMsg
    /\ shot = "none"
    /\ pageOpen = FALSE

\* the processes that share the file
Procs == {1, 2}

\* no process is inside afterEachTest
InitProcs ==
    /\ ppc = [p \in Procs |-> "idle"]
    /\ prec = [p \in Procs |-> [name |-> Null, status |-> Null]]
    /\ pbuf = [p \in Procs |-> <<>>]
    /\ pret = [p \in Procs |-> Undef]

\* the selectors the two verifications wait for
Selectors == {"successMessage", "errorMessage", "logoutButton"}

\* how page.waitForSelector(selector, {visible, timeout}) can end: it
\* resolves, rejects at the timeout, or rejects for another reason
WaitOutcomes == {"visible", "timeout", "error"}

\* no verification has returned yet
NoVerify == [op |-> "none", raised |-> FALSE, value |-> FALSE]

\* a blank page: no login test is looking at it
InitLoginPage ==
    /\ pageUrl = <<>>
    /\ waitForSelector = [s \in Selectors |-> "timeout"]
    /\ verifyRet = NoVerify

\* the reporter called in any order
Init ==
    InitReporter /\ InitHooks /\ InitProcs /\ InitLoginPage /\ hpc = "off"

\* what every skipped call leaves behind
Skipped(op, logs) ==
    /\ lastOp' = op
    /\ ret' = Null
    /\ lastReq' = NoReq
    /\ requests' = 0
    /\ lastResp' = "none"
    /\ logged' = logs
    /\ ioErr' = FALSE
    /\ fileRead' = FALSE

(***************************************************************************)
(* API-1: beforeAllTests (start).                                          *)
(*   resp the outcome of POST /api/pipeline-runs/                          *)
(*   rid  the run identifier of a 2xx response, NoId if it carries none    *)
(*   io   the outcome of clearing the test-cases file                      *)
(***************************************************************************)
BeforeAllTests(resp, rid, io) ==
    /\ ops' = ops + 1
    /\ IF LocalRun
       THEN /\ Skipped("start", LocalRunLog("start"))
            /\ UNCHANGED <<pipelineRunId, envRunId, startTime, file, calls,
                           ioFailed, lastStartId>>
       ELSE /\ lastOp' = "start"
            /\ startTime' = now
            /\ file' = ClearTestCasesFile(file, io)
            /\ ioErr' = (io = "fail")
            /\ ioFailed' = (io = "fail")
            /\ fileRead' = FALSE
            /\ calls' = <<>>
            /\ IF variant = 2 /\ io = "fail"
               THEN \* clearTestCasesFile has no try/catch and is called
                    \* outside the try block: the call rejects
                    /\ ret' = Raise
                    /\ lastReq' = NoReq
                    /\ requests' = 0
                    /\ lastResp' = "none"
                    /\ logged' = {}
                    /\ lastStartId' = "raised"
                    /\ UNCHANGED <<pipelineRunId, envRunId>>
               ELSE \* one axios.post, no retry
                    /\ lastReq' = CreateReq
                    /\ requests' = 1
                    /\ lastResp' = resp
                    /\ IF resp = "ok"
                       THEN LET id == IF rid = NoId THEN Undef ELSE rid IN
                            /\ pipelineRunId' = id
                            /\ lastStartId' = rid
                            /\ IF variant = 2 /\ Falsy(id)
                               THEN \* throw new Error('run_id missing')
                                    /\ ret' = CatchResult
                                    /\ logged' = {"apiError"} \cup IoLog(ioErr')
                                    /\ UNCHANGED envRunId
                               ELSE /\ envRunId' = ToEnvString(id)
                                    /\ ret' = Data
                                    /\ logged' = {"apiSuccess"}
                                                   \cup IoLog(ioErr')
                       ELSE /\ ret' = CatchResult
                            /\ logged' = {"apiError"} \cup IoLog(ioErr')
                            /\ lastStartId' = "failed"
                            /\ UNCHANGED <<pipelineRunId, envRunId>>
    /\ UNCHANGED <<variant, isJenkins, testStartTime, now, lastFinish>>

(***************************************************************************)
(* markTestStart.                                                          *)
(***************************************************************************)
\* a mark that resets the start time of the run as well
MarkTestStartAndRun ==
    /\ ops' = ops + 1
    /\ testStartTime' = now
    /\ startTime' = now
    /\ lastOp' = "mark"
    /\ ret' = Undef
    /\ lastReq' = NoReq
    /\ requests' = 0
    /\ lastResp' = "none"
    /\ logged' = {}
    /\ ioErr' = FALSE
    /\ fileRead' = FALSE
    /\ UNCHANGED <<variant, isJenkins, pipelineRunId, envRunId, now, file,
                   calls, ioFailed, lastStartId, lastFinish>>

MarkTestStart ==
    /\ ops' = ops + 1
    /\ testStartTime' = now
    /\ lastOp' = "mark"
    /\ ret' = Undef
    /\ lastReq' = NoReq
    /\ requests' = 0
    /\ lastResp' = "none"
    /\ logged' = {}
    /\ ioErr' = FALSE
    /\ fileRead' = FALSE
    /\ UNCHANGED <<variant, isJenkins, pipelineRunId, envRunId, startTime,
                   now, file, calls, ioFailed, lastStartId, lastFinish>>

(***************************************************************************)
(* API-3: afterEachTest (recordTest).                                      *)
(*   name, status  the arguments                                           *)
(*   msg           the third argument, an error message or null            *)
(*   resp          the outcome of POST /api/test-cases/                    *)
(*   io            the outcome of saveTestCaseToFile                       *)
(***************************************************************************)
AfterEachTest(name, status, msg, resp, io) ==
    /\ ops' = ops + 1
    /\ IF LocalRun
       THEN /\ Skipped("record", LocalRunLog("record"))
            /\ UNCHANGED <<pipelineRunId, file, calls, ioFailed>>
       ELSE LET id == GetPipelineRunId(pipelineRunId, envRunId)
                rec == [name |-> name, status |-> status]
            IN
            /\ calls' = Append(calls, rec)
            /\ pipelineRunId' = id
            /\ IF NoRunId(id)
               THEN /\ Skipped("record", SkipLog)
                    /\ UNCHANGED <<file, ioFailed>>
               ELSE /\ lastOp' = "record"
                    /\ lastReq' = TestCaseReq(id, name, status, msg)
                    /\ requests' = 1
                    /\ lastResp' = resp
                    /\ fileRead' = FALSE
                    /\ IF RequestSucceeded(resp)
                       THEN \* the record is saved after the request returned
                            /\ file' = SaveTestCaseToFile(file, rec, io)
                            /\ ioErr' = (io = "fail")
                            /\ ioFailed' = (ioFailed \/ io = "fail")
                            /\ IF variant = 2 /\ io = "fail"
                               THEN \* saveTestCaseToFile throws inside the try
                                    /\ ret' = CatchResult
                                    /\ logged' = {"apiError"}
                               ELSE /\ ret' = Data
                                    /\ logged' = {"apiSuccess"}
                                                   \cup IoLog(ioErr')
                       ELSE /\ ret' = CatchResult
                            /\ logged' = {"apiError"}
                            /\ ioErr' = FALSE
                            /\ UNCHANGED <<file, ioFailed>>
    /\ UNCHANGED <<variant, isJenkins, envRunId, startTime, testStartTime,
                   now, lastStartId, lastFinish>>

(***************************************************************************)
(* API-4: afterAllTests (finish).                                          *)
(*   resp  the outcome of PATCH /api/pipeline-runs/{id}/                   *)
(*   io    the outcome of reading the test-cases file                      *)
(***************************************************************************)
AfterAllTests(resp, io) ==
    /\ ops' = ops + 1
    /\ IF LocalRun
       THEN /\ Skipped("finish", LocalRunLog("finish"))
            /\ UNCHANGED <<pipelineRunId, ioFailed, lastFinish>>
       ELSE LET id == GetPipelineRunId(pipelineRunId, envRunId)
                \* an absent file is not read, so it cannot fail to be read
                bad == file.exists /\ io = "fail"
                tests == IF bad THEN <<>> ELSE ReadTestCasesFromFile(file)
            IN
            /\ pipelineRunId' = id
            /\ IF NoRunId(id)
               THEN /\ Skipped("finish", SkipLog)
                    /\ UNCHANGED <<ioFailed, lastFinish>>
               ELSE /\ lastOp' = "finish"
                    /\ fileRead' = TRUE
                    /\ ioErr' = bad
                    /\ ioFailed' = (ioFailed \/ bad)
                    /\ IF variant = 2 /\ bad
                       THEN \* readTestCasesFromFile has no try/catch and is
                            \* called outside the try block
                            /\ ret' = Raise
                            /\ lastReq' = NoReq
                            /\ requests' = 0
                            /\ lastResp' = "none"
                            /\ logged' = {}
                            /\ UNCHANGED lastFinish
                       ELSE /\ lastReq' = UpdateReq(id, tests)
                            /\ requests' = 1
                            /\ lastResp' = resp
                            /\ IF resp = "ok"
                               THEN /\ ret' = Data
                                    /\ logged' = {"apiSuccess"} \cup IoLog(bad)
                                    /\ lastFinish' =
                                         [run |-> id,
                                          status |-> lastReq'.status]
                               ELSE /\ ret' = CatchResult
                                    /\ logged' = {"apiError"} \cup IoLog(bad)
                                    /\ UNCHANGED lastFinish
    /\ UNCHANGED <<variant, isJenkins, envRunId, startTime, testStartTime,
                   now, file, calls, lastStartId>>

(***************************************************************************)
(* Time passes between two calls of the harness.                           *)
(***************************************************************************)
Tick ==
    /\ now < MaxTime
    /\ now' = now + 1
    /\ UNCHANGED <<variant, isJenkins, pipelineRunId, envRunId, startTime,
                   testStartTime, file, lastOp, ret, lastReq, lastResp,
                   logged, ioErr, fileRead, calls, ioFailed, lastStartId,
                   lastFinish, ops, requests>>

\* the run identifier of a response: only a 2xx response carries a body
RespIdsOf(resp) == IF resp = "ok" THEN RespIds ELSE {NoId}

\* the messages given with a status: a long one and an empty one only with
\* failed, where they make a difference
MsgsOf(status) ==
    IF status = "failed" THEN Msgs ELSE {NoMsg, ErrLimit - 1}

\* the outcome of saving a record: the file is written only after the
\* request has returned successfully
SaveOutcomesOf(resp) == IF resp = "ok" THEN IoOutcomes ELSE {"ok"}

\* the calls come in any order, MaxOps of them
Next ==
    \/ /\ ops < MaxOps
       /\ \E resp \in Outcomes, io \in IoOutcomes :
            \E rid \in RespIdsOf(resp) : BeforeAllTests(resp, rid, io)
       /\ UNCHANGED hvars
       /\ UNCHANGED <<cvars, lvars>>
    \/ /\ ops < MaxOps
       /\ MarkTestStart
       /\ UNCHANGED hvars
       /\ UNCHANGED <<cvars, lvars>>
    \/ /\ ops < MaxOps
       /\ \E name \in Names, status \in Statuses, resp \in Outcomes :
            \E io \in SaveOutcomesOf(resp), msg \in MsgsOf(status) :
               AfterEachTest(name, status, msg, resp, io)
       /\ UNCHANGED hvars
       /\ UNCHANGED <<cvars, lvars>>
    \/ /\ ops < MaxOps
       /\ \E resp \in Outcomes, io \in IoOutcomes : AfterAllTests(resp, io)
       /\ UNCHANGED hvars
       /\ UNCHANGED <<cvars, lvars>>
    \/ Tick /\ UNCHANGED hvars /\ UNCHANGED <<cvars, lvars>>

Spec == Init /\ [][Next]_vars

(***************************************************************************)
(* The harness: the hooks of tests/login.test.js, run by one Jest worker.  *)
(* A hook that calls the reporter awaits the call: the call is one step,   *)
(* its return (the request settled, the promise resolved) another.         *)
(***************************************************************************)
RequestTimeout == 10000         \* config.api.timeout, in milliseconds

\* no timer at all
TimerArmedNever(t) == FALSE

\* axios arms the timer of a request when its timeout is positive
TimerArmed(t) == t > 0

\* the hook is waiting for a reporter call to return
AwaitStates == {"awaitStart", "awaitRecord", "awaitFinish"}
Pending == hpc \in AwaitStates

\* a hook that goes on without waiting for the call
AfterCallNoWait(op) ==
    CASE op = "start" -> "beforeEach"
      [] op = "record" -> "beforeEach"
      [] op = "finish" -> "done"

\* await apiHelper.beforeAllTests() / afterEachTest(...) / afterAllTests():
\* where the hook stands once the call is made
AfterCall(op) ==
    CASE op = "start" -> "awaitStart"
      [] op = "record" -> "awaitRecord"
      [] op = "finish" -> "awaitFinish"

\* the hook that runs when n tests are over: after a failed beforeAll the
\* beforeEach hooks and the test bodies are skipped, the afterEach hooks
\* still run
NextHook(n, failed) ==
    IF n < MaxTests
    THEN (IF failed THEN "afterEach" ELSE "beforeEach")
    ELSE "afterAll"

\* what a test left in expect.getState(): the number of assertion calls (a
\* test whose body never ran made none) and the suppressed errors, each by
\* the length of its message
AssertionCalls == IF beforeAllFailed THEN {0} ELSE {0, 1}
SuppressedErrors ==
    {<<>>, <<0>>, <<ErrLimit - 1>>, <<ErrLimit + 1, 0>>}

\* the suppressed errors looked at before the assertion calls
TestStatusErrorsFirst(asserts, errs) ==
    IF Len(errs) > 0 THEN "failed"
    ELSE IF asserts = 0 THEN "skipped" ELSE "passed"

\* let testStatus = 'passed'; if (testState.assertionCalls === 0) ... else
\* if (testState.suppressedErrors && suppressedErrors.length > 0) ...
TestStatus(asserts, errs) ==
    IF asserts = 0 THEN "skipped"
    ELSE IF Len(errs) > 0 THEN "failed" ELSE "passed"

\* let errorMessage = null; ... errorMessage = suppressedErrors[0].message
HookErrorMessage(asserts, errs) ==
    IF TestStatus(asserts, errs) = "failed" THEN errs[1] ELSE NoMsg

ScreenshotsOnFailure == TRUE    \* config.screenshots.onFailure

\* if (testStatus === 'failed' && config.screenshots.onFailure)
ScreenshotWanted(status) == status = "failed" /\ ScreenshotsOnFailure

\* a screenshot failure that escapes the hook
ScreenshotCaughtNever == FALSE

\* try { ... await loginPage.takeScreenshot(...) } catch (error) { log }
ScreenshotCaught == TRUE

InitH ==
    /\ InitReporter /\ InitHooks /\ InitProcs /\ InitLoginPage
    /\ hpc = "beforeAll"

\* beforeAll: await apiHelper.beforeAllTests()
HBeforeAll ==
    /\ hpc = "beforeAll"
    /\ \E resp \in Outcomes, io \in IoOutcomes :
         \E rid \in RespIdsOf(resp) : BeforeAllTests(resp, rid, io)
    /\ hpc' = AfterCall("start")
    /\ inFlight' = inFlight + requests'
    /\ UNCHANGED <<testsRun, beforeAllFailed, testStatus, errorMessage,
                   shot, pageOpen>>

\* beforeEach: apiHelper.markTestStart(); the page is opened and the test
\* body runs before the afterEach hook
HBeforeEach ==
    /\ hpc = "beforeEach"
    /\ MarkTestStart
    /\ pageOpen' = TRUE
    /\ hpc' = "afterEach"
    /\ UNCHANGED <<inFlight, testsRun, beforeAllFailed, testStatus,
                   errorMessage, shot>>

\* afterEach, first part: the status and the message are computed and the
\* screenshot of a failed test is attempted.
\*   asserts, errs  what the test left in expect.getState()
\*   taken          loginPage.takeScreenshot succeeded
HAfterEachStatus(asserts, errs, taken) ==
    /\ hpc = "afterEach"
    /\ testStatus' = TestStatus(asserts, errs)
    /\ errorMessage' = HookErrorMessage(asserts, errs)
    /\ shot' = IF ScreenshotWanted(testStatus')
               THEN (IF taken THEN "taken" ELSE "failed")
               ELSE "none"
    /\ hpc' = IF shot' = "failed" /\ ~ScreenshotCaught
              THEN NextHook(testsRun + 1, beforeAllFailed)
              ELSE "report"
    /\ UNCHANGED <<variant, isJenkins, pipelineRunId, envRunId, startTime,
                   testStartTime, now, file, lastOp, ret, lastReq, lastResp,
                   logged, ioErr, fileRead, calls, ioFailed, lastStartId,
                   lastFinish, ops, requests, inFlight, testsRun,
                   beforeAllFailed, pageOpen>>

\* afterEach, second part: await apiHelper.afterEachTest(testName,
\* testStatus, errorMessage)
HAfterEach ==
    /\ hpc = "report"
    /\ \E name \in Names, resp \in Outcomes :
         \E io \in SaveOutcomesOf(resp) :
            AfterEachTest(name, testStatus, errorMessage, resp, io)
    /\ hpc' = AfterCall("record")
    /\ inFlight' = inFlight + requests'
    /\ UNCHANGED <<testsRun, beforeAllFailed, testStatus, errorMessage,
                   shot, pageOpen>>

\* afterAll: the browser is closed, then await apiHelper.afterAllTests()
HAfterAll ==
    /\ hpc = "afterAll"
    /\ \E resp \in Outcomes, io \in IoOutcomes : AfterAllTests(resp, io)
    /\ hpc' = AfterCall("finish")
    /\ inFlight' = inFlight + requests'
    /\ UNCHANGED <<testsRun, beforeAllFailed, testStatus, errorMessage,
                   shot, pageOpen>>

\* afterAll: await browser.close() rejects and the hook ends there
HBrowserCloseFails ==
    /\ hpc = "afterAll"
    /\ ~beforeAllFailed         \* if (browser)
    /\ hpc' = "done"
    /\ UNCHANGED <<variant, isJenkins, pipelineRunId, envRunId, startTime,
                   testStartTime, now, file, lastOp, ret, lastReq, lastResp,
                   logged, ioErr, fileRead, calls, ioFailed, lastStartId,
                   lastFinish, ops, requests, inFlight, testsRun,
                   beforeAllFailed, testStatus, errorMessage, shot,
                   pageOpen>>

\* the awaited call returns: its request, if it issued one, has been
\* answered or its timer has expired.  After afterEachTest the hook closes
\* the page and ends.
\*   launched  puppeteer.launch succeeded (beforeAll, after the start)
HReturn(launched) ==
    /\ Pending
    /\ requests = 0 \/ lastResp # "timeout" \/ TimerArmed(RequestTimeout)
    /\ inFlight' = inFlight - requests
    /\ CASE hpc = "awaitStart" ->
              /\ beforeAllFailed' = (ret = Raise \/ ~launched)
              /\ testsRun' = testsRun
              /\ hpc' = NextHook(testsRun, beforeAllFailed')
              /\ UNCHANGED <<testStatus, errorMessage, shot, pageOpen>>
         [] hpc = "awaitRecord" ->
              /\ testsRun' = testsRun + 1
              /\ hpc' = NextHook(testsRun', beforeAllFailed)
              /\ testStatus' = "none"
              /\ errorMessage' = NoMsg
              /\ shot' = "none"
              /\ pageOpen' = FALSE       \* if (page) await page.close()
              /\ UNCHANGED beforeAllFailed
         [] hpc = "awaitFinish" ->
              /\ hpc' = "done"
              /\ UNCHANGED <<testsRun, beforeAllFailed, testStatus,
                             errorMessage, shot, pageOpen>>
    /\ UNCHANGED <<variant, isJenkins, pipelineRunId, envRunId, startTime,
                   testStartTime, now, file, lastOp, ret, lastReq, lastResp,
                   logged, ioErr, fileRead, calls, ioFailed, lastStartId,
                   lastFinish, ops, requests>>

NextH ==
    \/ HBeforeAll /\ UNCHANGED <<cvars, lvars>>
    \/ HBeforeEach /\ UNCHANGED <<cvars, lvars>>
    \/ /\ \E asserts \in AssertionCalls, errs \in SuppressedErrors,
             taken \in BOOLEAN : HAfterEachStatus(asserts, errs, taken)
       /\ UNCHANGED <<cvars, lvars>>
    \/ HAfterEach /\ UNCHANGED <<cvars, lvars>>
    \/ HAfterAll /\ UNCHANGED <<cvars, lvars>>
    \/ HBrowserCloseFails /\ UNCHANGED <<cvars, lvars>>
    \/ (\E launched \in BOOLEAN : HReturn(launched)) /\ UNCHANGED <<cvars, lvars>>
    \/ Tick /\ UNCHANGED hvars /\ UNCHANGED <<cvars, lvars>>

SpecH == InitH /\ [][NextH]_vars

\* a call that is awaited returns: the answer arrives or the timer fires
SpecHFair ==
    SpecH /\ WF_vars((\E launched \in BOOLEAN : HReturn(launched))
                        /\ UNCHANGED <<cvars, lvars>>)

(***************************************************************************)
(* Two processes that share test-results/.test-cases.json, each inside     *)
(* afterEachTest with reporting enabled and a run id resolved from the     *)
(* shared handle.  saveTestCaseToFile is synchronous inside one process,   *)
(* but between two processes the read of the one and the write of the      *)
(* other interleave.                                                       *)
(***************************************************************************)

\* the other state, left alone by the steps of the two processes
ovars == <<variant, isJenkins, pipelineRunId, envRunId, startTime,
           testStartTime, now, lastOp, ret, lastReq, lastResp, logged, ioErr,
           fileRead, calls, ioFailed, lastStartId, lastFinish, ops, requests>>

\* a write that starts from the file as it is now
SnapshotFresh(p) == [exists |-> TRUE, cases |-> ReadTestCasesFromFile(file)]

\* the file as process p read it: testCases / cases before the push
Snapshot(p) == [exists |-> TRUE, cases |-> pbuf[p]]

\* what afterEachTest returns when the save failed: the first variant has
\* logged the failure inside saveTestCaseToFile, the second is in its catch
SaveFailedResult == IF variant = 1 THEN Data ELSE CatchResult

\* await axios.post(.../api/test-cases/): the request of process p is
\* answered
PRequest(p, name, status, resp) ==
    /\ ppc[p] = "idle"
    /\ prec' = [prec EXCEPT ![p] = [name |-> name, status |-> status]]
    /\ IF resp = "ok"
       THEN /\ ppc' = [ppc EXCEPT ![p] = "read"]
            /\ UNCHANGED pret
       ELSE /\ ppc' = [ppc EXCEPT ![p] = "done"]
            /\ pret' = [pret EXCEPT ![p] = CatchResult]
    /\ UNCHANGED <<file, pbuf>>
    /\ UNCHANGED ovars
    /\ UNCHANGED hvars

\* saveTestCaseToFile, first half: existsSync, readJsonSync
PRead(p, io) ==
    /\ ppc[p] = "read"
    /\ IF io = "ok" \/ ~file.exists
       THEN /\ pbuf' = [pbuf EXCEPT ![p] = ReadTestCasesFromFile(file)]
            /\ ppc' = [ppc EXCEPT ![p] = "write"]
            /\ UNCHANGED pret
       ELSE /\ ppc' = [ppc EXCEPT ![p] = "done"]
            /\ pret' = [pret EXCEPT ![p] = SaveFailedResult]
            /\ UNCHANGED pbuf
    /\ UNCHANGED <<file, prec>>
    /\ UNCHANGED ovars
    /\ UNCHANGED hvars

\* saveTestCaseToFile, second half: push, writeJsonSync; then afterEachTest
\* returns
PWrite(p, io) ==
    /\ ppc[p] = "write"
    /\ file' = SaveTestCaseToFile(IF io = "ok" THEN Snapshot(p) ELSE file,
                                  prec[p], io)
    /\ ppc' = [ppc EXCEPT ![p] = "done"]
    /\ pret' = [pret EXCEPT ![p] = IF io = "ok" THEN Data
                                   ELSE SaveFailedResult]
    /\ UNCHANGED <<prec, pbuf>>
    /\ UNCHANGED ovars
    /\ UNCHANGED hvars

InitTwo ==
    /\ InitReporter /\ InitHooks /\ InitProcs /\ InitLoginPage
    /\ hpc = "off"
    /\ isJenkins

NextTwo ==
    \/ /\ \E p \in Procs, name \in Names, status \in Statuses,
             resp \in Outcomes : PRequest(p, name, status, resp)
       /\ UNCHANGED lvars
    \/ /\ \E p \in Procs, io \in IoOutcomes : PRead(p, io)
       /\ UNCHANGED lvars
    \/ /\ \E p \in Procs, io \in IoOutcomes : PWrite(p, io)
       /\ UNCHANGED lvars

SpecTwo == InitTwo /\ [][NextTwo]_vars

(***************************************************************************)
(* A process that tracks tests of a run another process has started: it    *)
(* inherits the handle PIPELINE_RUN_ID, has reporting enabled and never    *)
(* calls beforeAllTests.                                                   *)
(***************************************************************************)
InitWorker ==
    /\ InitReporterWith({"run-1"}) /\ InitHooks /\ InitProcs
    /\ InitLoginPage /\ hpc = "off"
    /\ isJenkins

NextWorker ==
    \/ /\ ops < MaxOps
       /\ MarkTestStart
       /\ UNCHANGED hvars
       /\ UNCHANGED <<cvars, lvars>>
    \/ /\ ops < MaxOps
       /\ \E name \in Names, status \in Statuses, resp \in Outcomes :
            \E io \in SaveOutcomesOf(resp), msg \in MsgsOf(status) :
               AfterEachTest(name, status, msg, resp, io)
       /\ UNCHANGED hvars
       /\ UNCHANGED <<cvars, lvars>>
    \/ /\ ops < MaxOps
       /\ \E resp \in Outcomes, io \in IoOutcomes : AfterAllTests(resp, io)
       /\ UNCHANGED hvars
       /\ UNCHANGED <<cvars, lvars>>
    \/ Tick /\ UNCHANGED hvars /\ UNCHANGED <<cvars, lvars>>

SpecWorker == InitWorker /\ [][NextWorker]_vars

(***************************************************************************)
(* Properties.                                                             *)
(***************************************************************************)

\* the record an afterEachTest call was given, read from its request
RecOf(req) == [name |-> req.name, status |-> req.status]

\* a reporter operation was called in this step
OpStep == ops' = ops + 1

\* C1: the counts of the finish request equal the multiset of statuses of
\* the afterEachTest calls made since the last start: total_tests is the
\* number of calls, passed / failed / aborted the numbers of calls with
\* status passed / failed / skipped, and the status is failed exactly when
\* some call had status failed.  (Stated for runs without a file failure.)
C1_FinishCountsEqualCalls ==
    (isJenkins /\ lastOp = "finish" /\ lastReq.kind = "update" /\ ~ioFailed)
    => /\ lastReq.total = Len(calls)
       /\ lastReq.passed = CountStatus(calls, "passed")
       /\ lastReq.failed = CountStatus(calls, "failed")
       /\ lastReq.aborted = CountStatus(calls, "skipped")
       /\ (lastReq.status = "failed") <=> (CountStatus(calls, "failed") > 0)

\* C2: an afterEachTest call whose remote request fails returns null and
\* still appends its record to the persisted sequence.
C2_FailedRequestStillAppends ==
    [][(isJenkins /\ OpStep /\ lastOp' = "record"
          /\ lastReq'.kind = "testcase" /\ lastResp' \in Failures)
       => /\ ret' = Null
          /\ file'.cases = Append(ReadTestCasesFromFile(file), RecOf(lastReq'))
      ]_vars

\* C3: when finish reads the persisted sequence it holds exactly one record
\* per afterEachTest call made since the last start, in call order, and no
\* record written before that start.  (Stated for runs without a file
\* failure.)
C3_PersistedEqualsCalls ==
    (isJenkins /\ lastOp = "finish" /\ fileRead /\ ~ioFailed)
    => ReadTestCasesFromFile(file) = calls

\* C4: with reporting disabled no call issues a request or changes the
\* persisted file or the shared run-id handle, and start / recordTest /
\* finish return null.
C4_DisabledIsNoOp ==
    [][~isJenkins
       => /\ file' = file
          /\ envRunId' = envRunId
          /\ lastReq' = NoReq
          /\ (lastOp' \in {"start", "record", "finish"} => ret' = Null)
      ]_vars

C4_Witness ==
    ~isJenkins /\ lastOp = "finish" /\ ops >= 3 /\ ret = Null

\* C5: whenever the remote request of start, recordTest or finish fails
\* (network error, timeout, non-2xx), the call returns null and does not
\* raise.
C5_FailedRequestReturnsNull ==
    lastResp \in Failures => (lastReq # NoReq /\ ret = Null)

C5_Witness ==
    lastOp = "finish" /\ lastReq.kind = "update" /\ lastResp = "timeout"
    /\ ret = Null

\* C6: a failure to read or write the persisted file is never raised by
\* start, recordTest or finish, and finish then reports zero counts.
C6_IoFailureNeverRaises ==
    ioErr => /\ ret # Raise
             /\ lastOp = "finish"
                  => (lastReq.kind = "update" /\ lastReq.total = 0
                      /\ lastReq.passed = 0 /\ lastReq.failed = 0
                      /\ lastReq.aborted = 0)

\* C7: a request of recordTest or finish carries the run id returned to the
\* most recent start; when that start failed or its response had no run id,
\* recordTest and finish issue no request.
C7_RunIdFromLastStart ==
    (lastOp \in {"record", "finish"} /\ lastReq # NoReq)
    => lastReq.run = lastStartId

\* C8: with reporting enabled and no resolvable run id, recordTest and
\* finish issue no request, leave the persisted file alone, log the
\* omission and return null.
C8_NoRunIdIsLoggedNoOp ==
    [][(isJenkins /\ OpStep /\ lastOp' \in {"record", "finish"}
          /\ Falsy(pipelineRunId) /\ envRunId = EnvAbsent)
       => /\ lastReq' = NoReq
          /\ file' = file
          /\ "skip" \in logged'
          /\ ret' = Null
      ]_vars

C10_TerminalStatusNeverChanges ==
    [][OpStep
       => /\ lastReq'.kind = "create" => lastReq'.status = "running"
          /\ (lastReq'.kind = "update" /\ lastFinish.run = lastReq'.run
                /\ ~ioFailed')
               => lastReq'.status = lastFinish.status
      ]_vars

\* C10 (amended): a create-run request is sent only by start and carries
\* status running; a request that addresses a run by its id and carries a
\* run status is sent only by finish and carries passed or failed, never
\* running.  The reporter does not remember that a run was finished: a
\* finish after further recordTest calls recomputes the status and may send
\* failed for a run it had set to passed.
C10_StatusByOperation ==
    /\ lastReq.kind = "create"
         => (lastOp = "start" /\ lastReq.status = "running")
    /\ lastReq.kind = "update"
         => (lastOp = "finish" /\ lastReq.status \in {"passed", "failed"})
    /\ lastReq.kind = "testcase" => lastOp = "record"
    /\ lastOp = "start" => lastReq.kind \in {"create", "none"}
    /\ lastOp = "finish" => lastReq.kind \in {"update", "none"}
    /\ lastFinish.status \in {Null, "passed", "failed"}

C10_Witness ==
    /\ lastOp = "finish" /\ lastReq.kind = "update"
    /\ lastFinish.run = lastReq.run
    /\ lastFinish.status = "passed" /\ lastReq.status = "failed"

\* C11: a finish made with a resolvable run id and no persisted record (the
\* file empty or absent) sends total_tests 0, passed 0, failed 0, aborted 0
\* and status passed.
C11_EmptyRunIsPassed ==
    (isJenkins /\ lastOp = "finish" /\ lastReq.kind = "update"
       /\ (~file.exists \/ file.cases = <<>>))
    => /\ lastReq.total = 0
       /\ lastReq.passed = 0
       /\ lastReq.failed = 0
       /\ lastReq.aborted = 0
       /\ lastReq.status = "passed"

C11_Witness ==
    /\ isJenkins /\ lastOp = "finish" /\ lastReq.kind = "update"
    /\ ~file.exists /\ lastReq.total = 0 /\ lastReq.status = "passed"

C13_OneRequestPerCall ==
    /\ requests <= 1
    /\ lastOp = "mark" => requests = 0
    /\ (isJenkins /\ lastOp = "start") => requests = 1
    /\ (isJenkins /\ lastOp \in {"record", "finish"}
          /\ ~Falsy(pipelineRunId)) => requests = 1

\* C14: driven by the hooks of tests/login.test.js, which await every
\* reporter call, the reporter never has more than one HTTP request in
\* flight.
C14_OneRequestInFlight == inFlight <= 1
\* the request of the second test is in flight, those before it settled
C14_Witness ==
    /\ hpc = "awaitRecord" /\ testsRun = 1 /\ inFlight = 1
    /\ lastReq.kind = "testcase"

\* C15: every call of start, recordTest and finish that the harness awaits
\* eventually returns, and a call whose request got no response before the
\* timer expired has returned null, a handled failure.
C15_EveryCallReturns ==
    /\ Pending ~> ~Pending
    /\ []((~Pending /\ requests = 1 /\ lastResp = "timeout") => ret = Null)
\* a recordTest whose request got no response has returned null
C15_Witness ==
    /\ ~Pending /\ lastOp = "record" /\ requests = 1
    /\ lastResp = "timeout" /\ ret = Null

\* C16: in every run of the suite the reporter calls come in the order
\* start, then markTestStart and recordTest in turn for each test, then
\* finish: a call is made only when the call before it has returned, start
\* is the first call, markTestStart follows start or a recordTest,
\* recordTest follows the markTestStart of its test, finish follows the last
\* recordTest, nothing follows finish, and a run that is over has called
\* finish.
C16_CallOrder ==
    /\ [](hpc = "done" => lastOp = "finish")
    /\ [][OpStep =>
            /\ ~Pending
            /\ lastOp # "finish"
            /\ lastOp' = "start" => lastOp = "none"
            /\ lastOp' = "mark" => lastOp \in {"start", "record"}
            /\ lastOp' = "record" => lastOp = "mark"
            /\ lastOp' = "finish" => lastOp = "record"]_vars

\* C17: the duration computed by recordTest is never negative: it is the
\* time of the call minus the time of the last markTestStart, and exactly
\* zero when markTestStart was never called in this process.  (The clock of
\* the model never runs backwards.)
C17_DurationNonNegative ==
    [][(OpStep /\ lastOp' = "record" /\ lastReq'.kind = "testcase")
       => /\ lastReq'.durationMs >= 0
          /\ testStartTime # NoTime
               => lastReq'.durationMs = now - testStartTime
          /\ testStartTime = NoTime => lastReq'.durationMs = 0]_vars
\* a test that took time
C17_Witness ==
    /\ lastOp = "record" /\ lastReq.kind = "testcase"
    /\ testStartTime # NoTime /\ lastReq.durationMs > 0

\* the number of records of s with status st
NumWithStatus(s, st) == Cardinality({i \in 1..Len(s) : s[i].status = st})

\* C18 (as claimed): with reporting enabled the persisted sequence is empty
\* after every start, whether its request succeeded or failed, and the
\* finish of a run never counts more records than recordTest was called
\* since the start of that run.
C18_StartClearsFile ==
    /\ [][(isJenkins /\ OpStep /\ lastOp' = "start")
          => ReadTestCasesFromFile(file') = <<>>]_vars
    /\ []((isJenkins /\ lastOp = "finish" /\ lastReq.kind = "update"
             /\ lastStartId # "never")
          => lastReq.total <= Len(calls))
\* C18 (amended): a start whose clearing write succeeded leaves the
\* persisted sequence empty, whether its request succeeded or failed; a
\* start whose clearing write failed leaves the file as it was; and in a run
\* without a file failure the finish never counts more records than
\* recordTest was called since the start of that run.
C18_StartClearsWritableFile ==
    /\ [][(isJenkins /\ OpStep /\ lastOp' = "start")
          => /\ ~ioErr' => file' = [exists |-> TRUE, cases |-> <<>>]
             /\ ioErr' => file' = file]_vars
    /\ []((isJenkins /\ lastOp = "finish" /\ lastReq.kind = "update"
             /\ lastStartId # "never" /\ ~ioFailed)
          => lastReq.total <= Len(calls))
\* a start whose request failed has cleared the file
C18_Witness ==
    /\ isJenkins /\ lastOp = "start" /\ lastResp \in Failures /\ ~ioErr
    /\ file = [exists |-> TRUE, cases |-> <<>>]

\* C19 (as claimed): the finish request is computed from the persisted
\* sequence alone: total_tests is its length, passed / failed / aborted the
\* numbers of its records with status passed / failed / skipped, the status
\* is failed exactly when failed > 0, and total_tests is the sum of the
\* three counts when every persisted status is one of the three.
C19_FinishFromPersisted ==
    (isJenkins /\ lastOp = "finish" /\ lastReq.kind = "update")
    => LET s == ReadTestCasesFromFile(file) IN
       /\ lastReq.total = Len(s)
       /\ lastReq.passed = NumWithStatus(s, "passed")
       /\ lastReq.failed = NumWithStatus(s, "failed")
       /\ lastReq.aborted = NumWithStatus(s, "skipped")
       /\ lastReq.status = "failed" <=> lastReq.failed > 0
       /\ lastReq.status \in {"passed", "failed"}
       /\ (\A i \in 1..Len(s) : s[i].status \in Statuses)
            => lastReq.total
                 = lastReq.passed + lastReq.failed + lastReq.aborted
\* C19 (amended): the same of a finish that could read the file; a finish
\* that could not read it and still sends a request counts no record at all
\* and sends status passed.
C19_FinishFromSequenceRead ==
    (isJenkins /\ lastOp = "finish" /\ lastReq.kind = "update")
    => LET s == IF ioErr THEN <<>> ELSE ReadTestCasesFromFile(file) IN
       /\ lastReq.total = Len(s)
       /\ lastReq.passed = NumWithStatus(s, "passed")
       /\ lastReq.failed = NumWithStatus(s, "failed")
       /\ lastReq.aborted = NumWithStatus(s, "skipped")
       /\ lastReq.status = "failed" <=> lastReq.failed > 0
       /\ lastReq.status \in {"passed", "failed"}
       /\ (\A i \in 1..Len(s) : s[i].status \in Statuses)
            => lastReq.total
                 = lastReq.passed + lastReq.failed + lastReq.aborted
       /\ ioErr => variant = 1
\* a finish over one record that passed and one that failed
C19_Witness ==
    /\ isJenkins /\ lastOp = "finish" /\ lastReq.kind = "update" /\ ~ioErr
    /\ Len(file.cases) = 2
    /\ lastReq.total = 2 /\ lastReq.passed = 1 /\ lastReq.failed = 1
    /\ lastReq.status = "failed"

\* C20: the test-case request of recordTest carries an error message exactly
\* when the status is failed and a non-empty message was given, and the
\* message sent is the first 500 characters of the given one: as long as the
\* given one when that has at most 500 characters, 500 long otherwise.
C20_ErrorMessageWhenFailed ==
    [][\A name \in Names, status \in Statuses, msg \in Msgs,
          resp \in Outcomes, io \in IoOutcomes :
          (AfterEachTest(name, status, msg, resp, io)
             /\ lastReq'.kind = "testcase")
          => /\ lastReq'.errLen # NoMsg
                  <=> (status = "failed" /\ msg # NoMsg /\ msg > 0)
             /\ lastReq'.errLen <= ErrLimit
             /\ lastReq'.errLen # NoMsg
                  => lastReq'.errLen = (IF msg <= ErrLimit THEN msg
                                        ELSE ErrLimit)]_vars

\* C21: the finish request carries the wall time elapsed since start, in
\* whole seconds rounded down and never negative, and 0 when the start time
\* is unset because start was never called in this process.
C21_FinishCarriesElapsedSeconds ==
    [][(OpStep /\ lastOp' = "finish" /\ lastReq'.kind = "update")
       => /\ lastReq'.duration >= 0
          /\ startTime = NoTime => lastReq'.duration = 0
          /\ startTime # NoTime
               => /\ lastReq'.duration * 1000 <= (now - startTime) * MsPerTick
                  /\ (now - startTime) * MsPerTick
                        < (lastReq'.duration + 1) * 1000]_vars

\* C22: for every test the afterEach hook reports one status: skipped when
\* the test made no assertion call, otherwise failed when there is a
\* suppressed error (the message of the first one being the error message),
\* otherwise passed; and it calls afterEachTest exactly once per test, with
\* that status and that message.
C22_HookReportsOneStatus ==
    /\ [][\A asserts \in {0, 1}, errs \in SuppressedErrors, taken \in BOOLEAN :
            HAfterEachStatus(asserts, errs, taken)
            => /\ asserts = 0 => (testStatus' = "skipped"
                                    /\ errorMessage' = NoMsg)
               /\ (asserts > 0 /\ errs # <<>>)
                    => (testStatus' = "failed" /\ errorMessage' = Head(errs))
               /\ (asserts > 0 /\ errs = <<>>)
                    => (testStatus' = "passed" /\ errorMessage' = NoMsg)
               /\ hpc' = "report"]_vars
    /\ [][hpc = "report"
            => /\ testStatus' = testStatus \/ testStatus' = "none"
               /\ hpc' # "report"
                    => \E name \in Names, resp \in Outcomes, io \in IoOutcomes :
                          AfterEachTest(name, testStatus, errorMessage,
                                        resp, io)]_vars
    /\ [][(OpStep /\ lastOp' = "record") => hpc = "report"]_vars
    /\ [][testsRun' # testsRun
            => (testsRun' = testsRun + 1 /\ hpc = "awaitRecord"
                  /\ lastOp = "record")]_vars
\* the call made for a failed test, with the message of its first error
C22_Witness ==
    /\ hpc = "awaitRecord" /\ lastOp = "record" /\ testStatus = "failed"
    /\ errorMessage = ErrLimit + 1 /\ lastReq.kind = "testcase"
    /\ lastReq.status = "failed"

\* C23: in the afterEach hook a screenshot is attempted only when the test
\* status is failed and screenshots.onFailure is set, and before the test is
\* reported; a failed screenshot never prevents the afterEachTest call; the
\* page is closed only after afterEachTest has returned.
C23_ScreenshotThenReportThenClose ==
    /\ [](shot # "none" => (testStatus = "failed" /\ ScreenshotsOnFailure))
    /\ [][shot' # shot
            => (hpc = "afterEach" /\ ~OpStep) \/ shot' = "none"]_vars
    /\ []((hpc = "report" /\ shot = "failed") => ENABLED HAfterEach)
    /\ [][(hpc = "afterEach" /\ hpc' # hpc) => hpc' = "report"]_vars
    /\ [][(hpc = "report" /\ hpc' # hpc)
            => (OpStep /\ lastOp' = "record")]_vars
    /\ [][(pageOpen /\ ~pageOpen')
            => (hpc = "awaitRecord" /\ ~Pending' /\ lastOp = "record")]_vars
\* a test reported although its screenshot failed; the page is still open
C23_Witness ==
    /\ hpc = "awaitRecord" /\ shot = "failed" /\ lastOp = "record"
    /\ testStatus = "failed" /\ pageOpen

\* a is an initial part of b
IsPrefix(a, b) == Len(a) <= Len(b) /\ SubSeq(b, 1, Len(a)) = a

\* C24 (as claimed): with the appends serialized by the harness, every
\* afterEachTest whose request succeeded adds exactly one record, its own,
\* at the end of the persisted sequence, and no step other than a start
\* removes or changes a record already there.
C24_SuccessAppendsOne ==
    /\ [][(OpStep /\ lastOp' = "record" /\ lastResp' = "ok")
            => ReadTestCasesFromFile(file')
                 = Append(ReadTestCasesFromFile(file), RecOf(lastReq'))]_vars
    /\ [][~(OpStep /\ lastOp' = "start")
            => IsPrefix(ReadTestCasesFromFile(file),
                        ReadTestCasesFromFile(file'))]_vars
\* C24 (amended): the same of every afterEachTest whose request succeeded
\* and whose file write succeeded; when the write fails the persisted
\* sequence is left as it was.
C24_SuccessAppendsOneIfWritten ==
    /\ [][(OpStep /\ lastOp' = "record" /\ lastResp' = "ok")
            => /\ ~ioErr' => ReadTestCasesFromFile(file')
                              = Append(ReadTestCasesFromFile(file),
                                       RecOf(lastReq'))
               /\ ioErr' => file' = file]_vars
    /\ [][(OpStep /\ lastOp' = "record" /\ lastResp' # "ok")
            => file' = file]_vars
    /\ [][~(OpStep /\ lastOp' = "start")
            => IsPrefix(ReadTestCasesFromFile(file),
                        ReadTestCasesFromFile(file'))]_vars
\* the second record of a run has been appended after the first
C24_Witness ==
    /\ hpc = "awaitRecord" /\ lastOp = "record" /\ lastResp = "ok"
    /\ ~ioFailed /\ lastStartId \in RunIds
    /\ Len(file.cases) = 2 /\ file.cases[2] = RecOf(lastReq)
    /\ file.cases[1].status # file.cases[2].status

\* C25: the append of afterEachTest is a read of the whole file, a push and
\* a write of the whole file, and not one atomic step: what a process
\* writes is the sequence it read earlier plus its own record, whatever the
\* file holds by then.  With two processes sharing the file a state is
\* therefore reachable (C25_Witness) in which both calls have returned
\* successfully and the file holds only one of the two records.
C25_WriteOfStaleRead ==
    [][\A p \in Procs :
          (ppc[p] = "write" /\ ppc'[p] = "done" /\ file' # file)
          => /\ file'.cases = Append(pbuf[p], prec[p])
             /\ pret'[p] = Data]_vars
\* the lost update: both calls saved and returned the payload, the file
\* started empty and holds one record
C25_Witness ==
    /\ variant = 2
    /\ \A p \in Procs : ppc[p] = "done" /\ pret[p] = Data
    /\ prec[1].status = "passed" /\ prec[2].status = "failed"
    /\ file.cases = <<prec[1]>>

\* every record of s is the record of some call in cs
EachRecordCalled(s, cs) ==
    \A i \in 1..Len(s) : \E j \in 1..Len(cs) : cs[j] = s[i]

\* C26: a record enters the persisted sequence only in an afterEachTest call
\* that resolved a run id, issued its request and got a successful answer,
\* and it is the record of that call; a call that was skipped (reporting
\* disabled, no run id) or whose request failed leaves the file alone.  So
\* in a run whose start cleared the file every persisted record is the
\* record of a call made in that run.
C26_RecordOnlyAfterSuccess ==
    /\ [][(ReadTestCasesFromFile(file') # <<>> /\ file' # file)
            => /\ OpStep /\ lastOp' = "record"
               /\ isJenkins /\ ~Falsy(lastReq'.run)
               /\ requests' = 1 /\ lastReq'.kind = "testcase"
               /\ lastResp' = "ok"
               /\ file'.cases = Append(ReadTestCasesFromFile(file),
                                       RecOf(lastReq'))]_vars
    /\ [][(OpStep /\ lastOp' = "record" /\ lastResp' # "ok")
            => file' = file]_vars
    /\ []((isJenkins /\ lastStartId # "never" /\ ~ioFailed)
            => EachRecordCalled(ReadTestCasesFromFile(file), calls))
\* after a call whose request failed and a call whose request succeeded the
\* file holds the record of the second alone
C26_Witness ==
    /\ isJenkins /\ lastStartId \in RunIds /\ ~ioFailed
    /\ lastOp = "record" /\ lastResp = "ok"
    /\ Len(calls) = 2 /\ calls[1].status # calls[2].status
    /\ file.cases = <<calls[2]>>

\* the status and the counts of a finish request
Aggregates(req) ==
    <<req.status, req.total, req.passed, req.failed, req.aborted>>

\* C27 (as claimed): afterAllTests leaves the persisted sequence, the cached
\* run id, the shared handle and the start time unchanged, and two
\* consecutive finish calls send the same status and the same counts.
C27_FinishOnlyReads ==
    /\ [][(OpStep /\ lastOp' = "finish")
            => /\ file' = file /\ envRunId' = envRunId
               /\ startTime' = startTime
               /\ \/ pipelineRunId' = pipelineRunId
                  \/ Falsy(pipelineRunId) /\ Falsy(pipelineRunId')]_vars
    /\ [][(OpStep /\ lastOp = "finish" /\ lastOp' = "finish"
             /\ lastReq.kind = "update" /\ lastReq'.kind = "update")
            => Aggregates(lastReq') = Aggregates(lastReq)]_vars
\* C27 (amended): afterAllTests leaves the persisted sequence, the shared
\* handle and the start time unchanged; it leaves a cached run id unchanged
\* and fills an empty cache with the value of the handle; two consecutive
\* finish calls that both could read the file send the same status and the
\* same counts.
C27_FinishOnlyFillsCache ==
    /\ [][(OpStep /\ lastOp' = "finish")
            => /\ file' = file /\ envRunId' = envRunId
               /\ startTime' = startTime
               /\ ~Falsy(pipelineRunId) => pipelineRunId' = pipelineRunId
               /\ Falsy(pipelineRunId)
                    => pipelineRunId' = EnvOrNull(envRunId)]_vars
    /\ [][(OpStep /\ lastOp = "finish" /\ lastOp' = "finish"
             /\ lastReq.kind = "update" /\ lastReq'.kind = "update"
             /\ ~ioErr /\ ~ioErr')
            => Aggregates(lastReq') = Aggregates(lastReq)]_vars
\* two finish calls in a row, the first of which filled the cache
C27_Witness ==
    /\ ops = 2 /\ testStartTime = NoTime /\ calls = <<>>
    /\ lastOp = "finish" /\ lastReq.kind = "update" /\ ~ioErr
    /\ lastReq.total = 1 /\ lastReq.status = "failed"
    /\ pipelineRunId = "run-1"

\* C28: the cache is preferred to the handle.  A cached run id is changed
\* only by a later start that succeeded, which puts the run id of its
\* response in its place; it is never emptied; and an empty cache is filled,
\* outside start, only with the value of the handle.
C28_CachePreferred ==
    [][/\ (~Falsy(pipelineRunId) /\ pipelineRunId' # pipelineRunId)
            => /\ OpStep /\ lastOp' = "start" /\ lastResp' = "ok"
               /\ ret' = Data /\ pipelineRunId' \in RunIds
       /\ ~Falsy(pipelineRunId) => ~Falsy(pipelineRunId')
       /\ (Falsy(pipelineRunId) /\ ~Falsy(pipelineRunId')
             /\ ~(OpStep /\ lastOp' = "start"))
            => (pipelineRunId' = envRunId /\ envRunId' = envRunId)]_vars

\* C29: markTestStart sets the test-start mark and nothing else: it issues
\* no request and leaves the persisted file, the cached run id, the handle
\* and the start time of the run alone.  afterEachTest leaves the mark
\* alone, so of two afterEachTest calls in a row the second measures from
\* the same mark and its duration is at least that of the first.
C29_MarkOnlySetsMark ==
    /\ [][(OpStep /\ lastOp' = "mark")
            => /\ testStartTime' = now
               /\ requests' = 0 /\ lastReq' = NoReq
               /\ file' = file /\ pipelineRunId' = pipelineRunId
               /\ envRunId' = envRunId /\ startTime' = startTime]_vars
    /\ [][(OpStep /\ lastOp' = "record")
            => testStartTime' = testStartTime]_vars
    /\ [][(OpStep /\ lastOp = "record" /\ lastOp' = "record"
             /\ lastReq.kind = "testcase" /\ lastReq'.kind = "testcase")
            => lastReq'.durationMs >= lastReq.durationMs]_vars
\* the second of two afterEachTest calls after one mark, later than the mark
C29_Witness ==
    /\ ops = MaxOps /\ Len(calls) = 2 /\ lastOp = "record"
    /\ lastReq.kind = "testcase" /\ testStartTime # NoTime
    /\ startTime # NoTime /\ lastReq.durationMs > 0

(***************************************************************************)
(* The login page of the tests: LoginPage.verifySuccessfulLogin and        *)
(* LoginPage.verifyFailedLogin, over BasePage.isVisible and                *)
(* BasePage.getCurrentUrl.  A URL is the sequence of its parts, and a      *)
(* verification returns a record: whether it raised, and the value it      *)
(* returned when it did not.                                               *)
(***************************************************************************)
\* the URLs the page can show: blank, the login page, the secure area, the
\* login page with the secure area in its query, and two without the parts
Urls ==
    { <<>>, <<"/", "login">>, <<"/", "secure">>,
      <<"/", "login", "?", "/", "secure">>, <<"secure">>,
      <<"/", "logout">> }

\* String.prototype.includes: part occurs in s as a contiguous run
Includes(s, part) ==
    \E i \in 0..(Len(s) - Len(part)) :
        SubSeq(s, i + 1, i + Len(part)) = part

\* getCurrentUrl: return this.page.url()
GetCurrentUrl == pageUrl

IsVisibleUncaught(selector) ==
    [raised |-> waitForSelector[selector] # "visible",
     value |-> waitForSelector[selector] = "visible"]

\* isVisible: true when the wait resolves, false when it rejects for
\* whatever reason; the catch lets nothing out
IsVisible(selector) ==
    [raised |-> FALSE, value |-> waitForSelector[selector] = "visible"]

\* the three checks of a page object, each a call of isVisible
IsSuccessMessageDisplayed == IsVisible("successMessage")
IsErrorMessageDisplayed == IsVisible("errorMessage")
IsLogoutButtonDisplayed == IsVisible("logoutButton")

\* what a verification returns from the checks it awaited in turn: an
\* await of a rejected promise leaves the function at once
Verified(op, onPage, checks) ==
    LET raised == \E i \in 1..Len(checks) : checks[i].raised
    IN  [op |-> op,
         raised |-> raised,
         value |-> /\ ~raised
                   /\ onPage
                   /\ \A i \in 1..Len(checks) : checks[i].value]

\* verifySuccessfulLogin
VerifySuccessfulLogin ==
    LET currentUrl == GetCurrentUrl
        isOnSecureArea == Includes(currentUrl, <<"/", "secure">>)
        hasSuccessMessage == IsSuccessMessageDisplayed
        hasLogoutButton == IsLogoutButtonDisplayed
    IN  /\ verifyRet' = Verified("verifySuccessfulLogin", isOnSecureArea,
                                 <<hasSuccessMessage, hasLogoutButton>>)
        /\ UNCHANGED <<pageUrl, waitForSelector>>

\* verifyFailedLogin
VerifyFailedLogin ==
    LET currentUrl == GetCurrentUrl
        isOnLoginPage == Includes(currentUrl, <<"/", "login">>)
        hasErrorMessage == IsErrorMessageDisplayed
    IN  /\ verifyRet' = Verified("verifyFailedLogin", isOnLoginPage,
                                 <<hasErrorMessage>>)
        /\ UNCHANGED <<pageUrl, waitForSelector>>

\* a test navigates to the login page and submits the form: the page ends
\* at some URL with some of the elements shown
Login(url, waits) ==
    /\ pageUrl' = url
    /\ waitForSelector' = waits
    /\ verifyRet' = NoVerify

InitPage ==
    /\ InitReporter /\ InitHooks /\ InitProcs /\ InitLoginPage
    /\ hpc = "off"
    /\ variant = 1 /\ ~isJenkins /\ file = FileAbsent

NextPage ==
    \/ /\ \E url \in Urls, waits \in [Selectors -> WaitOutcomes] :
            Login(url, waits)
       /\ UNCHANGED <<ovars, file, hvars, cvars>>
    \/ VerifySuccessfulLogin /\ UNCHANGED <<ovars, file, hvars, cvars>>
    \/ VerifyFailedLogin /\ UNCHANGED <<ovars, file, hvars, cvars>>

SpecPage == InitPage /\ [][NextPage]_vars

\* C30: verifySuccessfulLogin returns true exactly when the URL contains
\* /secure and the success message and the logout button are visible;
\* verifyFailedLogin returns true exactly when the URL contains /login and
\* the error message is visible; neither raises, whatever way the wait for
\* an element ends.
C30_VerifyIffConditions ==
    /\ verifyRet.op = "verifySuccessfulLogin"
         => /\ ~verifyRet.raised
            /\ verifyRet.value
                 <=> /\ Includes(pageUrl, <<"/", "secure">>)
                     /\ waitForSelector["successMessage"] = "visible"
                     /\ waitForSelector["logoutButton"] = "visible"
    /\ verifyRet.op = "verifyFailedLogin"
         => /\ ~verifyRet.raised
            /\ verifyRet.value
                 <=> /\ Includes(pageUrl, <<"/", "login">>)
                     /\ waitForSelector["errorMessage"] = "visible"

\* on the secure area with the success message shown and no logout button,
\* verifySuccessfulLogin has returned false
C30_Witness ==
    /\ verifyRet.op = "verifySuccessfulLogin"
    /\ Includes(pageUrl, <<"/", "secure">>)
    /\ waitForSelector["successMessage"] = "visible"
    /\ waitForSelector["logoutButton"] = "timeout"
    /\ ~verifyRet.raised /\ ~verifyRet.value

====
